---- MODULE Spec2Model ----
(***************************************************************************)
(* Lead Generation AI assistant (src/streamlit_app.py): the chat handler,  *)
(* the lead extractor and the lead registry, as a state machine.           *)
(*                                                                         *)
(* A text is a sequence of one-character strings, so that str.find, slices *)
(* str.strip and str.split are computed on characters as Python computes   *)
(* them.  Offsets are 0-based as in the source; the character at Python    *)
(* index i of s is s[i + 1].  The backtick is the character BT.            *)
(***************************************************************************)
EXTENDS Integers, Sequences, FiniteSets, TLC

VARIABLES
    GROQ_API_KEY,   \* st.session_state.GROQ_API_KEY
    leads,          \* st.session_state.leads
    messages,       \* st.session_state.messages
    rendered,       \* texts the transcript render loop showed in the latest script run
    clock,          \* the wall clock datetime.now() reads
    history         \* one record per submitted message: what the handler did

vars == <<GROQ_API_KEY, leads, messages, rendered, clock, history>>

-----------------------------------------------------------------------------
(* Bounds *)

\* Number of messages submitted in one session.
MaxTurns == 3

-----------------------------------------------------------------------------
(* Texts *)

\* The backtick character, which a TLA+ string cannot hold.
BT == "BACKTICK"

Greeting ==
    <<"H", "e", "l", "l", "o", "!", " ", "H", "o", "w", " ", "c", "a", "n", " ",
    "I", " ", "a", "s", "s", "i", "s", "t", " ", "y", "o", "u", " ", "t", "o",
    "d", "a", "y", "?">>
Fallback ==
    <<"I", "'", "m", " ", "s", "o", "r", "r", "y", ",", " ", "I", "'", "m", " ",
    "h", "a", "v", "i", "n", "g", " ", "t", "r", "o", "u", "b", "l", "e", " ",
    "c", "o", "n", "n", "e", "c", "t", "i", "n", "g", " ", "r", "i", "g", "h",
    "t", " ", "n", "o", "w", ".", " ", "P", "l", "e", "a", "s", "e", " ", "t",
    "r", "y", " ", "a", "g", "a", "i", "n", " ", "l", "a", "t", "e", "r", ".">>
FenceOpen ==
    <<BT, BT, BT, "j", "s", "o", "n">>
Fence ==
    <<BT, BT, BT>>
JWarmA ==
    <<"{", "\"", "e", "m", "a", "i", "l", "\"", ":", "\"", "a", "\"", ",", "\"",
    "l", "e", "a", "d", "_", "q", "u", "a", "l", "i", "t", "y", "\"", ":", "\"",
    "w", "a", "r", "m", "\"", "}">>
JAcmeA ==
    <<"{", "\"", "e", "m", "a", "i", "l", "\"", ":", "\"", "a", "\"", ",", "\"",
    "c", "o", "m", "p", "a", "n", "y", "\"", ":", "\"", "A", "c", "m", "e",
    "\"", "}">>
JHotA ==
    <<"{", "\"", "e", "m", "a", "i", "l", "\"", ":", "\"", "a", "\"", ",", "\"",
    "l", "e", "a", "d", "_", "q", "u", "a", "l", "i", "t", "y", "\"", ":", "\"",
    "h", "o", "t", "\"", "}">>
JHotB ==
    <<"{", "\"", "e", "m", "a", "i", "l", "\"", ":", "\"", "b", "\"", ",", "\"",
    "l", "e", "a", "d", "_", "q", "u", "a", "l", "i", "t", "y", "\"", ":", "\"",
    "h", "o", "t", "\"", "}">>
JStampedA ==
    <<"{", "\"", "e", "m", "a", "i", "l", "\"", ":", "\"", "a", "\"", ",", "\"",
    "t", "i", "m", "e", "s", "t", "a", "m", "p", "\"", ":", "\"", "x", "\"",
    "}">>
JNoEmail ==
    <<"{", "\"", "n", "a", "m", "e", "\"", ":", "\"", "n", "\"", "}">>
JEmptyEmail ==
    <<"{", "\"", "e", "m", "a", "i", "l", "\"", ":", "\"", "\"", ",", "\"", "n",
    "a", "m", "e", "\"", ":", "\"", "n", "\"", "}">>
JEmptyObject ==
    <<"{", "}">>
JArray ==
    <<"[", "1", "]">>
JEmptyArray ==
    <<"[", "]">>
JNumber ==
    <<"5">>
JString ==
    <<"\"", "a", "\"">>
JNull ==
    <<"n", "u", "l", "l">>
JTruncated ==
    <<"{", "\"", "e", "m", "a", "i", "l", "\"", ":">>
Thanks ==
    <<"T", "h", "a", "n", "k", "s", "!", " ">>
Bye ==
    <<" ", "B", "y", "e">>
Hello ==
    <<"H", "e", "l", "l", "o">>
KeyBlank ==
    <<" ", " ">>
KeyValid ==
    <<" ", "g", "s", "k", "_", "1", "\n">>
PromptHi ==
    <<"h", "i">>

Whitespace == {" ", "\n", "\t", "\r"}

-----------------------------------------------------------------------------
(* Python str operations *)

Min(S) == CHOOSE x \in S : \A y \in S : x <= y

\* sub occurs in s at 0-based index i.
OccursAt(s, sub, i) ==
    /\ i >= 0
    /\ i + Len(sub) <= Len(s)
    /\ \A k \in 1..Len(sub) : s[i + k] = sub[k]

\* s.find(sub, start) for start >= 0: the lowest index >= start, or -1.
Find(s, sub, start) ==
    LET hits == {i \in start..(Len(s) - Len(sub)) : OccursAt(s, sub, i)}
    IN  IF hits = {} THEN -1 ELSE Min(hits)

\* s[a:b] for a, b >= 0: indices are clamped to the length, a >= b is empty.
Slice(s, a, b) ==
    LET hi == IF b < Len(s) THEN b ELSE Len(s)
    IN  IF a >= hi THEN <<>> ELSE SubSeq(s, a + 1, hi)

\* s.strip(): leading and trailing whitespace removed.
Strip(s) ==
    LET solid == {i \in 1..Len(s) : s[i] \notin Whitespace}
    IN  IF solid = {} THEN <<>>
        ELSE SubSeq(s, Min(solid), CHOOSE j \in solid : \A i \in solid : i <= j)

\* s.split(sep): the pieces between the occurrences of sep, left to right.
RECURSIVE Split(_, _)
Split(s, sep) ==
    LET i == Find(s, sep, 0)
    IN  IF i = -1 THEN <<s>>
        ELSE <<Slice(s, 0, i)>> \o Split(Slice(s, i + Len(sep), Len(s)), sep)

\* datetime.now().isoformat() of clock reading t.
isoformat(t) == ToString(t)

-----------------------------------------------------------------------------
(* JSON values and Python dicts *)

\* A dict is a function from keys to values; the values of a lead are strings.
EmptyDict == [k \in {} |-> ""]

DictValue(d) == [t |-> "dict", v |-> d]
ListValue(n) == [t |-> "list", len |-> n]
IntValue(n) == [t |-> "int", n |-> n]
StrValue(s) == [t |-> "str", s |-> s]
NoneValue == [t |-> "None"]

\* bool(x): the truth value the test of line 65 sees.
Truthy(x) ==
    CASE x.t = "dict" -> DOMAIN x.v # {}
      [] x.t = "list" -> x.len > 0
      [] x.t = "int" -> x.n # 0
      [] x.t = "str" -> x.s # ""
      [] OTHER -> FALSE

\* Mutant of DictUpdate: the entry is replaced by the incoming record.
DictUpdate_Replace(old, new) == new

\* old.update(new): new wins on shared keys, the other keys of old are kept.
DictUpdate(old, new) ==
    [k \in DOMAIN old \cup DOMAIN new |->
        IF k \in DOMAIN new THEN new[k] ELSE old[k]]

\* d[key] = value
SetItem(d, key, value) ==
    [k \in DOMAIN d \cup {key} |-> IF k = key THEN value ELSE d[k]]

\* bool(d.get(key)): the key is present with a non-empty string.
GetTruthy(d, key) == key \in DOMAIN d /\ d[key] # ""

\* json.loads on the payloads the model replies carry; every other text
\* (the empty text and the truncated object among them) is a JSONDecodeError.
JsonLoads(s) ==
    CASE s = JWarmA -> [ok |-> TRUE, value |-> DictValue([email |-> "a", lead_quality |-> "warm"])]
      [] s = JAcmeA -> [ok |-> TRUE, value |-> DictValue([email |-> "a", company |-> "Acme"])]
      [] s = JHotA -> [ok |-> TRUE, value |-> DictValue([email |-> "a", lead_quality |-> "hot"])]
      [] s = JHotB -> [ok |-> TRUE, value |-> DictValue([email |-> "b", lead_quality |-> "hot"])]
      [] s = JStampedA -> [ok |-> TRUE, value |-> DictValue([email |-> "a", timestamp |-> "x"])]
      [] s = JNoEmail -> [ok |-> TRUE, value |-> DictValue([name |-> "n"])]
      [] s = JEmptyEmail -> [ok |-> TRUE, value |-> DictValue([email |-> "", name |-> "n"])]
      [] s = JEmptyObject -> [ok |-> TRUE, value |-> DictValue(EmptyDict)]
      [] s = JArray -> [ok |-> TRUE, value |-> ListValue(1)]
      [] s = JEmptyArray -> [ok |-> TRUE, value |-> ListValue(0)]
      [] s = JNumber -> [ok |-> TRUE, value |-> IntValue(5)]
      [] s = JString -> [ok |-> TRUE, value |-> StrValue("a")]
      [] s = JNull -> [ok |-> TRUE, value |-> NoneValue]
      [] OTHER -> [ok |-> FALSE, value |-> NoneValue]

-----------------------------------------------------------------------------
(* The functions of the application *)

\* Mutant of initialize_groq_client: the key is tested without strip().
initialize_groq_client_NoStrip(key, ctorRaises) ==
    IF key # <<>>
    THEN IF ctorRaises
         THEN [client |-> FALSE, notices |-> {"Error initializing Groq client"}]
         ELSE [client |-> TRUE, notices |-> {}]
    ELSE [client |-> FALSE, notices |-> {}]

\* initialize_groq_client(): a client exists when the stripped key is not
\* empty and the groq.Groq constructor does not raise.
initialize_groq_client(key, ctorRaises) ==
    LET api_key == Strip(key)
    IN  IF api_key # <<>>
        THEN IF ctorRaises
             THEN [client |-> FALSE, notices |-> {"Error initializing Groq client"}]
             ELSE [client |-> TRUE, notices |-> {}]
        ELSE [client |-> FALSE, notices |-> {}]

\* Mutant of get_groq_response: the text of the exception is returned in
\* place of the fixed message.
get_groq_response_ErrorText(transcript, upstream) ==
    IF upstream.ok
    THEN [text |-> upstream.content, request |-> transcript, notices |-> {}]
    ELSE [text |-> <<"E", "r", "r", "o", "r">>, request |-> transcript,
          notices |-> {"Error fetching response from Groq"}]

\* Mutant of get_groq_response: the call is sent the transcript without its
\* last message.
get_groq_response_StaleTranscript(transcript, upstream) ==
    IF upstream.ok
    THEN [text |-> upstream.content,
          request |-> SubSeq(transcript, 1, Len(transcript) - 1), notices |-> {}]
    ELSE [text |-> Fallback,
          request |-> SubSeq(transcript, 1, Len(transcript) - 1),
          notices |-> {"Error fetching response from Groq"}]

\* get_groq_response(client, messages): the content the completion call
\* returned, or the fixed message when the call raised.
get_groq_response(transcript, upstream) ==
    IF upstream.ok
    THEN [text |-> upstream.content, request |-> transcript, notices |-> {}]
    ELSE [text |-> Fallback, request |-> transcript,
          notices |-> {"Error fetching response from Groq"}]

\* Mutant of extract_lead_data: the closing marker is searched from the
\* opening marker itself.
extract_lead_data_CloseFromOpen(response) ==
    LET json_start == Find(response, FenceOpen, 0)
        json_end == Find(response, Fence, json_start)
    IN  IF json_start # -1 /\ json_end # -1
        THEN LET json_str == Strip(Slice(response, json_start + 7, json_end))
                 parsed == JsonLoads(json_str)
             IN  IF parsed.ok
                 THEN [value |-> parsed.value, notices |-> {}]
                 ELSE [value |-> DictValue(EmptyDict),
                       notices |-> {"Error extracting lead data"}]
        ELSE [value |-> DictValue(EmptyDict), notices |-> {}]

\* extract_lead_data(response)
extract_lead_data(response) ==
    LET json_start == Find(response, FenceOpen, 0)
        json_end == Find(response, Fence, json_start + 6)
    IN  IF json_start # -1 /\ json_end # -1
        THEN LET json_str == Strip(Slice(response, json_start + 7, json_end))
                 parsed == JsonLoads(json_str)
             IN  IF parsed.ok
                 THEN [value |-> parsed.value, notices |-> {}]
                 ELSE [value |-> DictValue(EmptyDict),
                       notices |-> {"Error extracting lead data"}]
        ELSE [value |-> DictValue(EmptyDict), notices |-> {}]

\* The scan of lines 69-70: the first index whose entry has the email, or 0.
RECURSIVE FirstWithEmail(_, _, _)

\* Mutant of FirstWithEmail: the scan leaves out the last entry.
RECURSIVE FirstWithEmail_SkipLast(_, _, _)
FirstWithEmail_SkipLast(registry, email, i) ==
    IF i >= Len(registry) THEN 0
    ELSE IF "email" \in DOMAIN registry[i] /\ registry[i]["email"] = email THEN i
    ELSE FirstWithEmail_SkipLast(registry, email, i + 1)

FirstWithEmail(registry, email, i) ==
    IF i > Len(registry) THEN 0
    ELSE IF "email" \in DOMAIN registry[i] /\ registry[i]["email"] = email THEN i
    ELSE FirstWithEmail(registry, email, i + 1)

\* Mutant of update_lead_info: a record is appended whether or not its
\* email is already in the registry.
update_lead_info_AlwaysAppend(registry, lead_data, now) ==
    IF ~Truthy(lead_data) THEN [leads |-> registry, raised |-> FALSE]
    ELSE IF lead_data.t # "dict" THEN [leads |-> registry, raised |-> TRUE]
    ELSE [leads |-> Append(registry, SetItem(lead_data.v, "timestamp", isoformat(now))),
          raised |-> FALSE]

\* update_lead_info(lead_data) on registry; raised is the TypeError of the
\* item assignment of line 67 on a value that is not a dict.
update_lead_info(registry, lead_data, now) ==
    IF ~Truthy(lead_data) THEN [leads |-> registry, raised |-> FALSE]
    ELSE IF lead_data.t # "dict" THEN [leads |-> registry, raised |-> TRUE]
    ELSE LET stamped == SetItem(lead_data.v, "timestamp", isoformat(now))
             i == IF GetTruthy(stamped, "email")
                  THEN FirstWithEmail(registry, stamped["email"], 1)
                  ELSE 0
         IN  IF i # 0
             THEN [leads |-> [registry EXCEPT ![i] = DictUpdate(@, stamped)],
                   raised |-> FALSE]
             ELSE [leads |-> Append(registry, stamped), raised |-> FALSE]

\* Lines 120-124: the text the render loop shows for one stored message.
RenderMessage(message) ==
    IF message.role = "assistant"
    THEN LET json_start == Find(message.content, FenceOpen, 0)
         IN  IF json_start # -1 THEN Slice(message.content, 0, json_start)
             ELSE message.content
    ELSE message.content

\* Lines 118-125: the render loop over the transcript.
RenderLoop(transcript) == [i \in 1..Len(transcript) |-> RenderMessage(transcript[i])]

\* Mutant of display_response: the reply is split on the plain fence.
display_response_PlainFence(response) == Split(response, Fence)[1]

\* Line 139: the text shown for the reply of the running turn.
display_response(response) == Split(response, FenceOpen)[1]

-----------------------------------------------------------------------------
(* Inputs *)

\* A fenced block around a payload, as the prompt asks the model to write it.
Block(payload) == FenceOpen \o <<"\n">> \o payload \o <<"\n">> \o Fence

\* Values of the API key: the secret of line 14 or the sidebar input.
Keys == {<<>>, KeyBlank, KeyValid}

Prompts == {PromptHi}

Payloads ==
    {JWarmA, JAcmeA, JHotA, JHotB, JNoEmail, JEmptyEmail, JEmptyObject, JArray}

\* Replies of the model in a session.
Replies == {Hello} \cup {Thanks \o Block(p) : p \in Payloads}

\* Replies of the model for the extractor and the renderers: a prefix, an
\* opening marker or something short of it, a payload with or without
\* padding, a closing marker or something short of it, and a suffix.
AllPayloads ==
    {JWarmA, JAcmeA, JHotA, JHotB, JStampedA, JNoEmail, JEmptyEmail, JEmptyObject,
     JArray, JEmptyArray, JNumber, JString, JNull, JTruncated, <<>>}

AllReplies ==
    {pre \o open \o pad \o p \o pad \o close \o post :
        pre \in {<<>>, Thanks, <<BT, BT>>, Fence \o <<"\n">>},
        open \in {FenceOpen, Fence, <<BT, BT, "j", "s", "o", "n">>},
        pad \in {<<>>, <<"\n">>},
        p \in AllPayloads,
        close \in {Fence, <<>>, <<BT, BT>>},
        post \in {<<>>, Bye, FenceOpen \o JHotB \o Fence}}

\* Outcomes of the completion call: it raises, or returns one of the replies.
Upstreams(replies) ==
    {[ok |-> FALSE, content |-> <<>>]} \cup {[ok |-> TRUE, content |-> r] : r \in replies}

-----------------------------------------------------------------------------
(* The session *)

Message(role, content) == [role |-> role, content |-> content]

Init ==
    /\ GROQ_API_KEY \in Keys
    /\ leads = <<>>
    /\ messages = <<Message("assistant", Greeting)>>
    /\ rendered = RenderLoop(<<Message("assistant", Greeting)>>)
    /\ clock = 1
    /\ history = <<>>

\* The "Save API Key" button of the sidebar: one script run.
SaveApiKey(api_key_input) ==
    /\ GROQ_API_KEY' = api_key_input
    /\ rendered' = RenderLoop(messages)
    /\ UNCHANGED <<leads, messages, clock, history>>

\* A message submitted in the chat input: one script run, the render loop
\* over the stored transcript and then the handler of lines 127-142.
Submit(prompt, ctorRaises, upstream) ==
    LET init == initialize_groq_client(GROQ_API_KEY, ctorRaises)
        withUser == Append(messages, Message("user", prompt))
    IN  /\ rendered' = RenderLoop(messages)
        /\ clock' = clock + 1
        /\ UNCHANGED GROQ_API_KEY
        /\ IF init.client
           THEN LET reply == get_groq_response(withUser, upstream)
                    withReply == Append(withUser, Message("assistant", reply.text))
                    extracted == extract_lead_data(reply.text)
                    updated == update_lead_info(leads, extracted.value, clock)
                    stamps == Truthy(extracted.value) /\ ~updated.raised
                    shown == init.notices \cup reply.notices \cup extracted.notices
                             \cup (IF updated.raised THEN {"TypeError"} ELSE {})
                IN  /\ messages' = withReply
                    /\ leads' = updated.leads
                    /\ history' = Append(history,
                          [prompt |-> prompt,
                           api_key |-> GROQ_API_KEY,
                           before_messages |-> messages,
                           before_leads |-> leads,
                           client |-> TRUE,
                           calls |-> <<"initialize_groq_client", "get_groq_response",
                                       "extract_lead_data", "update_lead_info">>,
                           request |-> reply.request,
                           failed |-> ~upstream.ok,
                           response |-> reply.text,
                           lead_data |-> extracted.value,
                           stamp |-> IF stamps THEN clock ELSE 0,
                           raised |-> updated.raised,
                           displayed |-> ~updated.raised,
                           live |-> IF updated.raised THEN <<>>
                                    ELSE display_response(reply.text),
                           notices |-> shown,
                           after_messages |-> withReply,
                           after_leads |-> updated.leads])
           ELSE LET shown == init.notices
                             \cup {"Please enter a valid Groq API key in the sidebar."}
                IN  /\ messages' = withUser
                    /\ leads' = leads
                    /\ history' = Append(history,
                          [prompt |-> prompt,
                           api_key |-> GROQ_API_KEY,
                           before_messages |-> messages,
                           before_leads |-> leads,
                           client |-> FALSE,
                           calls |-> <<"initialize_groq_client">>,
                           request |-> <<>>,
                           failed |-> FALSE,
                           response |-> <<>>,
                           lead_data |-> NoneValue,
                           stamp |-> 0,
                           raised |-> FALSE,
                           displayed |-> FALSE,
                           live |-> <<>>,
                           notices |-> shown,
                           after_messages |-> withUser,
                           after_leads |-> leads])

SubmitMessage ==
    \E prompt \in Prompts, ctorRaises \in BOOLEAN,
       upstream \in Upstreams(Replies) :
        /\ Len(history) < MaxTurns
        /\ Submit(prompt, ctorRaises, upstream)

SaveKey == \E api_key_input \in Keys : SaveApiKey(api_key_input)

Next == SubmitMessage \/ SaveKey

Spec == Init /\ [][Next]_vars

\* One message of a fresh session, over the wider set of replies.
SubmitFirstMessage ==
    \E prompt \in Prompts, ctorRaises \in BOOLEAN,
       upstream \in Upstreams(AllReplies) :
        /\ history = <<>>
        /\ Submit(prompt, ctorRaises, upstream)

NextExtract == SubmitFirstMessage \/ SaveKey

SpecExtract == Init /\ [][NextExtract]_vars

-----------------------------------------------------------------------------
(* Vocabulary of the properties *)

Turns == 1..Len(history)

\* The turns whose handler reached update_lead_info, in order.
UpdateCalls == SelectSeq(history, LAMBDA h : h.client)

\* The handler of turn h passed a mapping to update_lead_info.
PassedRecord(h) == h.client /\ h.lead_data.t = "dict"

HasEmail(d) == "email" \in DOMAIN d /\ d["email"] # ""

\* The entries of registry whose email is e.
WithEmail(registry, e) ==
    {i \in 1..Len(registry) : "email" \in DOMAIN registry[i] /\ registry[i]["email"] = e}

\* A dict without its timestamp.
StripTimestamp(d) == [k \in DOMAIN d \ {"timestamp"} |-> d[k]]

\* after is before with one entry added at the end, and that entry carries
\* every field of record.
AppendedAsNew(before, after, record) ==
    /\ Len(after) = Len(before) + 1
    /\ SubSeq(after, 1, Len(before)) = before
    /\ \A k \in DOMAIN record \ {"timestamp"} :
          k \in DOMAIN after[Len(after)] /\ after[Len(after)][k] = record[k]

UniqueEmails(registry) ==
    \A i, j \in 1..Len(registry) :
        (i # j /\ HasEmail(registry[i]) /\ HasEmail(registry[j]))
            => registry[i]["email"] # registry[j]["email"]

-----------------------------------------------------------------------------
(* Properties *)

\* C1, as stated: no two entries of the registry share a non-empty email, and
\* every record whose email is absent or empty is appended as a new entry.
C1_AsStated ==
    /\ UniqueEmails(leads)
    /\ \A n \in Turns :
          (PassedRecord(history[n]) /\ ~HasEmail(history[n].lead_data.v))
              => AppendedAsNew(history[n].before_leads, history[n].after_leads,
                               history[n].lead_data.v)

\* C1, amended: no two entries of the registry share a non-empty email, and
\* every non-empty record whose email is absent or empty is appended as a new
\* entry; the empty record changes nothing.
C1_UniqueEmails ==
    /\ UniqueEmails(leads)
    /\ \A n \in Turns :
          LET h == history[n]
          IN  (PassedRecord(h) /\ ~HasEmail(h.lead_data.v))
                  => IF DOMAIN h.lead_data.v # {}
                     THEN AppendedAsNew(h.before_leads, h.after_leads, h.lead_data.v)
                     ELSE h.after_leads = h.before_leads

\* A registry of two distinct emails in which one upsert merged, one
\* appended a record without email and one got the empty record.
C1_Witness ==
    /\ Len(leads) >= 2
    /\ \E n \in Turns :
          /\ PassedRecord(history[n])
          /\ HasEmail(history[n].lead_data.v)
          /\ history[n].before_leads # <<>>
          /\ Len(history[n].after_leads) = Len(history[n].before_leads)
    /\ \E n \in Turns :
          /\ PassedRecord(history[n])
          /\ DOMAIN history[n].lead_data.v # {}
          /\ ~HasEmail(history[n].lead_data.v)

\* The first entry of registry whose email is e.
FirstMatch(registry, e) == Min(WithEmail(registry, e))

\* Turn h passed a non-empty record whose non-empty email an entry already had.
MergeTurn(h) ==
    /\ PassedRecord(h)
    /\ HasEmail(h.lead_data.v)
    /\ WithEmail(h.before_leads, h.lead_data.v["email"]) # {}

\* C2: an upsert of a non-empty record whose non-empty email an entry has
\* replaces the first such entry, in place, by the entry overridden key by
\* key with the stamped record; the length and all other entries are as before.
C2_MergeInPlace ==
    \A n \in Turns :
        LET h == history[n]
            record == h.lead_data.v
            i == FirstMatch(h.before_leads, record["email"])
            old == h.before_leads[i]
            new == h.after_leads[i]
        IN  MergeTurn(h) =>
              /\ Len(h.after_leads) = Len(h.before_leads)
              /\ \A j \in 1..Len(h.before_leads) :
                    j # i => h.after_leads[j] = h.before_leads[j]
              /\ DOMAIN new = DOMAIN old \cup DOMAIN record \cup {"timestamp"}
              /\ \A k \in DOMAIN new :
                    new[k] = IF k = "timestamp" THEN isoformat(h.stamp)
                             ELSE IF k \in DOMAIN record THEN record[k]
                             ELSE old[k]

\* A merge into the second entry of the registry that kept a field the
\* record lacks and changed a field the record shares.
C2_Witness ==
    \E n \in Turns :
        /\ MergeTurn(history[n])
        /\ FirstMatch(history[n].before_leads, history[n].lead_data.v["email"]) = 2
        /\ LET record == history[n].lead_data.v
               old == history[n].before_leads[2]
           IN  /\ DOMAIN old \ (DOMAIN record \cup {"timestamp"}) # {}
               /\ old["timestamp"] # isoformat(history[n].stamp)

\* A merge into the first entry that changed the value of a shared field
\* other than the timestamp.
C2_SharedKeyWitness ==
    \E n \in Turns :
        /\ MergeTurn(history[n])
        /\ LET record == history[n].lead_data.v
               old == history[n].before_leads[
                         FirstMatch(history[n].before_leads, record["email"])]
           IN  \E k \in (DOMAIN old \cap DOMAIN record) \ {"email", "timestamp"} :
                  old[k] # record[k]

\* C3: two calls in a row with the same non-empty record: with an email the
\* second call adds no entry, the email has one entry and its fields other
\* than the timestamp are those after the first call; without an email each
\* call adds one entry and the two added entries agree but for the timestamp.
C3_Idempotent ==
    \A n \in 1..(Len(UpdateCalls) - 1) :
        LET first == UpdateCalls[n]
            second == UpdateCalls[n + 1]
            record == first.lead_data.v
        IN  (/\ first.lead_data.t = "dict"
             /\ DOMAIN record # {}
             /\ second.lead_data = first.lead_data)
            => IF HasEmail(record)
               THEN /\ Len(second.after_leads) = Len(first.after_leads)
                    /\ UniqueEmails(second.after_leads)
                    /\ Cardinality(WithEmail(second.after_leads, record["email"])) = 1
                    /\ \A i \in WithEmail(second.after_leads, record["email"]) :
                          StripTimestamp(second.after_leads[i])
                              = StripTimestamp(first.after_leads[i])
               ELSE /\ Len(first.after_leads) = Len(first.before_leads) + 1
                    /\ Len(second.after_leads) = Len(first.after_leads) + 1
                    /\ StripTimestamp(second.after_leads[Len(second.after_leads)])
                          = StripTimestamp(first.after_leads[Len(first.after_leads)])

\* The same record with an email was upserted twice in a row into a registry
\* that held another entry, and got a later timestamp the second time.
C3_Witness ==
    \E n \in 1..(Len(UpdateCalls) - 1) :
        /\ UpdateCalls[n].lead_data.t = "dict"
        /\ UpdateCalls[n + 1].lead_data = UpdateCalls[n].lead_data
        /\ HasEmail(UpdateCalls[n].lead_data.v)
        /\ UpdateCalls[n].before_leads # <<>>
        /\ UpdateCalls[n + 1].stamp # UpdateCalls[n].stamp

\* The 0-based positions of the opening markers of text r.
OpenMarkers(r) == {i \in 0..Len(r) : OccursAt(r, FenceOpen, i)}

\* The positions of the triple backticks at or after the end of the opening
\* marker at o.
CloseMarkers(r, o) == {j \in (o + 7)..Len(r) : OccursAt(r, Fence, j)}

\* The characters strictly between the opening marker at o and the closing
\* marker at c.
Between(r, o, c) == SubSeq(r, o + 8, c)

\* s is t with nothing but whitespace around it.
IsPadded(s, t) ==
    \E a \in 0..(Len(s) - Len(t)) :
        /\ OccursAt(s, t, a)
        /\ \A k \in 1..Len(s) : (k <= a \/ k > a + Len(t)) => s[k] \in Whitespace

\* The texts that are a JSON value, and those that are a JSON object.
JsonTexts == {t \in AllPayloads : JsonLoads(t).ok}
ObjectTexts == {t \in JsonTexts : JsonLoads(t).value.t = "dict"}

\* What the reply r carries in its first fenced block: "none" without an
\* opening marker or without a closing marker after it, "malformed" when the
\* text between them is no JSON value, and else the JSON text.
Fenced(r) ==
    IF OpenMarkers(r) = {} THEN [kind |-> "none", text |-> <<>>]
    ELSE LET o == Min(OpenMarkers(r))
         IN  IF CloseMarkers(r, o) = {} THEN [kind |-> "none", text |-> <<>>]
             ELSE LET inner == Between(r, o, Min(CloseMarkers(r, o)))
                      texts == {t \in JsonTexts : IsPadded(inner, t)}
                  IN  IF texts = {} THEN [kind |-> "malformed", text |-> <<>>]
                      ELSE [kind |-> "json", text |-> CHOOSE t \in texts : TRUE]

\* C4: from a reply with a valid fenced JSON object the extractor returns
\* that object; from a reply without an opening marker, without a closing
\* marker after it, or with malformed JSON between them, the empty record.
C4_Extract ==
    \A n \in Turns :
        LET h == history[n]
            block == Fenced(h.response)
        IN  h.client =>
              /\ (block.kind = "json" /\ block.text \in ObjectTexts)
                    => h.lead_data = JsonLoads(block.text).value
              /\ block.kind \in {"none", "malformed"}
                    => h.lead_data = DictValue(EmptyDict)

\* A reply with prose before the block, a padded object with an email in it
\* and text after the closing marker, from which the record was extracted.
C4_Witness ==
    \E n \in Turns :
        LET h == history[n]
            block == Fenced(h.response)
        IN  /\ h.client
            /\ block.kind = "json"
            /\ block.text \in ObjectTexts
            /\ Min(OpenMarkers(h.response)) > 0
            /\ Between(h.response, Min(OpenMarkers(h.response)),
                       Min(CloseMarkers(h.response, Min(OpenMarkers(h.response)))))
                  # block.text
            /\ h.response[Len(h.response)] # BT
            /\ h.lead_data.t = "dict"
            /\ HasEmail(h.lead_data.v)

\* C5, as stated: what the extractor returns is always a mapping.
C5_AlwaysMapping ==
    \A n \in Turns : history[n].client => history[n].lead_data.t = "dict"

\* What is shown of an assistant message: the content up to the first
\* opening marker, all of it when there is none.
Truncated(content) ==
    IF OpenMarkers(content) = {} THEN content
    ELSE SubSeq(content, 1, Min(OpenMarkers(content)))

\* C8: the render loop shows every assistant message truncated at its first
\* opening marker, the handler shows the new reply truncated in the same
\* way, and a later run of the render loop shows the same text for it.
C8_DisplayTruncated ==
    /\ \A i \in 1..Len(rendered) :
          messages[i].role = "assistant" => rendered[i] = Truncated(messages[i].content)
    /\ \A n \in Turns :
          LET h == history[n]
              at == Len(h.after_messages)
          IN  h.displayed =>
                /\ h.live = Truncated(h.response)
                /\ Len(rendered) >= at => rendered[at] = h.live

\* A reply with text before and after its opening marker that was shown by
\* the handler and again by a later run of the render loop.
C8_Witness ==
    \E n \in Turns :
        LET h == history[n]
        IN  /\ h.displayed
            /\ OpenMarkers(h.response) # {}
            /\ h.live # <<>>
            /\ Len(h.live) + 7 < Len(h.response)
            /\ Len(rendered) = Len(h.after_messages)

\* The transcript of turn h after a client was made: the user message and
\* then the assistant message with text.
WithReply(h, text) ==
    h.before_messages \o <<Message("user", h.prompt), Message("assistant", text)>>

\* C6, as stated: when the completion call fails the fixed message is the
\* assistant reply, no extraction is attempted, the registry is as before
\* and the session takes further messages.
C6_AsStated ==
    \A n \in Turns :
        LET h == history[n]
        IN  h.failed =>
              /\ h.response = Fallback
              /\ h.after_messages = WithReply(h, Fallback)
              /\ "extract_lead_data" \notin {h.calls[k] : k \in 1..Len(h.calls)}
              /\ h.after_leads = h.before_leads
              /\ ~h.raised
              /\ (n = Len(history) /\ n < MaxTurns) => ENABLED SubmitMessage

\* C6, amended: when the completion call fails the fixed message is the
\* assistant reply, the extractor is run on it and returns the empty record,
\* so that the registry is as before, and the session takes further messages.
C6_Fallback ==
    \A n \in Turns :
        LET h == history[n]
        IN  h.failed =>
              /\ h.response = Fallback
              /\ h.after_messages = WithReply(h, Fallback)
              /\ "extract_lead_data" \in {h.calls[k] : k \in 1..Len(h.calls)}
              /\ h.lead_data = DictValue(EmptyDict)
              /\ h.after_leads = h.before_leads
              /\ ~h.raised
              /\ (n = Len(history) /\ n < MaxTurns) => ENABLED SubmitMessage

\* The completion call failed in a session that had a lead, and a later
\* message was answered by the model.
C6_Witness ==
    \E n \in Turns :
        /\ history[n].failed
        /\ history[n].before_leads # <<>>
        /\ n < Len(history)
        /\ history[n + 1].client
        /\ ~history[n + 1].failed

\* The key of turn h is empty or whitespace only.
KeyMissing(h) == \A k \in 1..Len(h.api_key) : h.api_key[k] \in Whitespace

\* No client could be made in turn h.
NoClient(h) == KeyMissing(h) \/ "Error initializing Groq client" \in h.notices

\* C7: a message submitted while the key is missing or no client can be
\* made: no completion call, no assistant message, no extraction and no
\* upsert, the registry as before, and the notice asking for a key.
C7_NoClient ==
    \A n \in Turns :
        LET h == history[n]
        IN  NoClient(h) =>
              /\ h.calls = <<"initialize_groq_client">>
              /\ h.request = <<>>
              /\ h.after_messages = Append(h.before_messages, Message("user", h.prompt))
              /\ h.after_leads = h.before_leads
              /\ "Please enter a valid Groq API key in the sidebar." \in h.notices

\* A message submitted under a whitespace-only key and another one under a
\* key whose client could not be made, in a session that had a lead.
C7_Witness ==
    /\ \E n \in Turns :
          /\ KeyMissing(history[n])
          /\ history[n].api_key # <<>>
          /\ history[n].before_leads # <<>>
    /\ \E n \in Turns :
          /\ ~KeyMissing(history[n])
          /\ "Error initializing Groq client" \in history[n].notices

\* C9, as stated: every submitted message is handled without an uncaught
\* error, whatever the model replied.
C9_NoUncaughtError == \A n \in Turns : ~history[n].raised

\* C10: the transcript starts with the greeting and only grows: each turn
\* starts from the transcript the turn before left, adds the user message
\* and then one assistant message exactly when a client could be made (the
\* fixed message when the call failed), and the completion call is sent the
\* transcript up to and including the user message.
C10_Transcript ==
    /\ messages # <<>>
    /\ messages[1] = Message("assistant", Greeting)
    /\ messages = IF history = <<>> THEN <<Message("assistant", Greeting)>>
                  ELSE history[Len(history)].after_messages
    /\ \A n \in Turns :
          LET h == history[n]
          IN  /\ h.before_messages = IF n = 1 THEN <<Message("assistant", Greeting)>>
                                     ELSE history[n - 1].after_messages
              /\ IF NoClient(h)
                 THEN h.after_messages
                         = Append(h.before_messages, Message("user", h.prompt))
                 ELSE /\ h.after_messages = WithReply(h, h.response)
                      /\ h.failed => h.response = Fallback
                      /\ ~h.failed => h.response \in Replies
                      /\ h.request = Append(h.before_messages, Message("user", h.prompt))

\* A session of three messages: one without a client, one whose completion
\* call failed and one the model answered.
C10_Witness ==
    /\ Len(history) = 3
    /\ \E n \in Turns : ~history[n].client
    /\ \E n \in Turns : history[n].failed
    /\ \E n \in Turns : history[n].client /\ ~history[n].failed
    /\ Len(messages) = 6

====
